---- MODULE Spec2Model ----
(***************************************************************************)
(* Model of cmd/get.go: the `get` command of the aqi CLI.                  *)
(* getAqi reads five location flags, builds a query URL, performs one GET, *)
(* decodes the JSON envelope and, for each station, logs a summary line    *)
(* and shows a blocking terminal view (dataUi) until "q" or "<C-c>".       *)
(*                                                                         *)
(* log.Fatal / log.Fatalf write the message and call os.Exit(1): deferred  *)
(* functions do not run.  A nil-pointer dereference panics (exit code 2).  *)
(***************************************************************************)
EXTENDS Integers, Sequences, FiniteSets, TLC

\* ---------------------------------------------------------------- bounds
MaxStations == 2

\* ------------------------------------------------------- input universes
CityValues      == {"", "Lahore", "La\thore"}
PostalValues    == {"", "54000"}
CountryValues   == {"", "PK"}
LatitudeValues  == {"", "31.5"}
LongitudeValues == {"", "74.3"}

Messages   == {"", "success"}
Categories == {"Good", "Moderate", "Unhealthy for Sensitive Groups",
               "Unhealthy", "Very Unhealthy", "Hazardous", "good", ""}
EventIDs   == {"q", "<C-c>", "<Enter>", "<Resize>"}

\* type Station: only the field the view's colour rule reads is varied.
Station == [Category : Categories]

RECURSIVE SeqsUpTo(_, _)
SeqsUpTo(S, n) ==
    IF n = 0 THEN {<< >>}
    ELSE LET shorter == SeqsUpTo(S, n - 1)
         IN  shorter \cup {Append(s, x) : s \in {t \in shorter : Len(t) = n - 1}, x \in S}

\* A response body: either bytes that decode into an ApiResponse, or not.
Malformed == [valid |-> FALSE, Message |-> "", Stations |-> << >>]
Bodies ==
    {[valid |-> TRUE, Message |-> m, Stations |-> s] :
        m \in Messages, s \in SeqsUpTo(Station, MaxStations)}
    \cup {Malformed}

NoBody == [valid |-> FALSE, Message |-> "-", Stations |-> << >>]
EmptyResponse == [Message |-> "", Stations |-> << >>]

VARIABLES
    city, postal, country, latitude, longitude,   \* flag values
    pc,            \* position in getAqi / dataUi
    url,           \* the url variable of getAqi
    requests,      \* number of HTTP requests handed to the client
    failures,      \* failures that occurred in the fetch-and-decode step
    resBody,       \* bytes the server's response carries
    bodyState,     \* "none" | "open" | "closed" : res.Body
    body,          \* what ioutil.ReadAll returned
    decoded,       \* json.Unmarshal returned nil
    aqi,           \* the decoded ApiResponse
    i,             \* 1-based position of the range loop
    logLines,      \* station summaries written with log.Println
    opened,        \* stations whose terminal view was opened
    dismissed,     \* stations whose view returned, with the key
    uiContexts,    \* terminal contexts initialised and not closed
    renders,       \* ui.Render calls in the current view
    barColor,      \* g.BarColor of the current view
    e,             \* ID of the last event received by the view
    fatal,         \* which log.Fatal ended the run ("none" if none)
    exitCode       \* -1 while running, else the process exit code

vars == << city, postal, country, latitude, longitude, pc, url, requests,
           failures, resBody, bodyState, body, decoded, aqi, i, logLines,
           opened, dismissed, uiContexts, renders, barColor, e, fatal,
           exitCode >>

flags  == << city, postal, country, latitude, longitude >>
fetch  == << requests, resBody, bodyState, body, decoded, aqi >>
report == << i, logLines, opened, dismissed >>
view   == << uiContexts, renders, barColor, e >>

\* ---------------------------------------------------------- query builder
Base == "http://localhost:3000/api"

\* The if / else-if chain of getAqi, in the order the code tests it.
Shape(c, p, o, la, lo) ==
    IF c # "" /\ p = "" /\ o = "" /\ la = "" /\ lo = "" THEN "city"
    ELSE IF p # "" /\ o # "" /\ la = "" /\ lo = "" THEN "postal"
    ELSE IF la # "" /\ lo # "" THEN "latlng"
    ELSE "none"

UrlSwapped(c, p, o, la, lo) ==
    LET s == Shape(c, p, o, la, lo) IN
    IF s = "city" THEN Base \o "?city=" \o c
    ELSE IF s = "postal" THEN Base \o "?postal=" \o o \o "&country=" \o p
    ELSE IF s = "latlng" THEN Base \o "?lat=" \o lo \o "&lng=" \o la
    ELSE ""

Url(c, p, o, la, lo) ==
    LET s == Shape(c, p, o, la, lo) IN
    IF s = "city" THEN Base \o "?city=" \o c
    ELSE IF s = "postal" THEN Base \o "?postal=" \o p \o "&country=" \o o
    ELSE IF s = "latlng" THEN Base \o "?lat=" \o la \o "&lng=" \o lo
    ELSE ""

\* log.Fatal*: message logged, os.Exit(1), no deferred call runs.
Fatal(kind) ==
    /\ pc' = "exited"
    /\ fatal' = kind
    /\ exitCode' = 1

Init ==
    /\ city \in CityValues
    /\ postal \in PostalValues
    /\ country \in CountryValues
    /\ latitude \in LatitudeValues
    /\ longitude \in LongitudeValues
    /\ pc = "flags"
    /\ url = ""
    /\ requests = 0
    /\ failures = {}
    /\ resBody = NoBody
    /\ bodyState = "none"
    /\ body = NoBody
    /\ decoded = FALSE
    /\ aqi = EmptyResponse
    /\ i = 1
    /\ logLines = << >>
    /\ opened = << >>
    /\ dismissed = << >>
    /\ uiContexts = 0
    /\ renders = 0
    /\ barColor = "default"
    /\ e = ""
    /\ fatal = "none"
    /\ exitCode = -1

\* getAqi lines 89-98
BuildUrl ==
    /\ pc = "flags"
    /\ IF Shape(city, postal, country, latitude, longitude) = "none"
       THEN /\ Fatal("usage")
            /\ url' = url
       ELSE /\ url' = Url(city, postal, country, latitude, longitude)
            /\ pc' = "built"
            /\ UNCHANGED << fatal, exitCode >>
    /\ UNCHANGED << flags, fetch, report, view, failures >>

\* getAqi line 100: http.NewRequest parses the URL and rejects one that
\* holds an ASCII control character.
ParseFails(u) == u = Base \o "?city=" \o "La\thore"

\* getAqi lines 100-105: http.NewRequest succeeded, header set
NewRequestOk ==
    /\ pc = "built"
    /\ ~ParseFails(url)
    /\ pc' = "request"
    /\ UNCHANGED << flags, url, fetch, report, view, failures, fatal, exitCode >>

\* getAqi lines 100-103: http.NewRequest returned an error
NewRequestErr ==
    /\ pc = "built"
    /\ ParseFails(url)
    /\ failures' = failures \cup {"request"}
    /\ Fatal("request")
    /\ UNCHANGED << flags, url, fetch, report, view >>

\* getAqi lines 107-114: the client returned a response; Close is deferred
DoOk ==
    /\ pc = "request"
    /\ \E b \in Bodies : resBody' = b
    /\ requests' = requests + 1
    /\ bodyState' = "open"
    /\ pc' = "read"
    /\ UNCHANGED << flags, url, body, decoded, aqi, report, view, failures,
                    fatal, exitCode >>

\* getAqi lines 107-114: transport failure, the error is discarded and res is
\* nil; evaluating res.Body for the deferred call panics.
DoErrNil ==
    /\ pc = "request"
    /\ requests' = requests + 1
    /\ failures' = failures \cup {"transport"}
    /\ pc' = "exited"
    /\ exitCode' = 2
    /\ UNCHANGED << flags, url, resBody, bodyState, body, decoded, aqi, report,
                    view, fatal >>

\* getAqi lines 107-114: redirect-policy failure, the error is discarded; the
\* client hands back the last response with its Body already closed.
DoErrRedirect ==
    /\ pc = "request"
    /\ requests' = requests + 1
    /\ failures' = failures \cup {"transport"}
    /\ bodyState' = "closed"
    /\ pc' = "read"
    /\ UNCHANGED << flags, url, resBody, body, decoded, aqi, report, view,
                    fatal, exitCode >>

\* getAqi line 116: ioutil.ReadAll returned every byte and no error
ReadOk ==
    /\ pc = "read"
    /\ bodyState = "open"
    /\ body' = resBody
    /\ pc' = "unmarshal"
    /\ UNCHANGED << flags, url, requests, resBody, bodyState, decoded, aqi,
                    report, view, failures, fatal, exitCode >>

\* getAqi line 116: ioutil.ReadAll returned an error, which is discarded.
\* The bytes read so far are either the whole document (the error came after
\* its last byte) or a truncated, undecodable prefix.  A closed body yields
\* no bytes.
ReadErr ==
    /\ pc = "read"
    /\ \E whole \in BOOLEAN :
          /\ whole => bodyState = "open"
          /\ body' = IF whole THEN resBody ELSE Malformed
    /\ failures' = failures \cup {"read"}
    /\ pc' = "unmarshal"
    /\ UNCHANGED << flags, url, requests, resBody, bodyState, decoded, aqi,
                    report, view, fatal, exitCode >>

\* getAqi lines 118-122
Unmarshal ==
    /\ pc = "unmarshal"
    /\ IF body.valid
       THEN /\ aqi' = [Message |-> body.Message, Stations |-> body.Stations]
            /\ decoded' = TRUE
            /\ pc' = "check"
            /\ UNCHANGED << failures, fatal, exitCode >>
       ELSE /\ failures' = failures \cup {"decode"}
            /\ Fatal("decode")
            /\ UNCHANGED << aqi, decoded >>
    /\ UNCHANGED << flags, url, requests, resBody, bodyState, body, report, view >>

NoStationsNever(r) == FALSE

\* getAqi line 124
NoStations(r) == Len(r.Stations) = 0

\* getAqi lines 124-126
CheckStations ==
    /\ pc = "check"
    /\ IF NoStations(aqi)
       THEN Fatal("empty")
       ELSE /\ pc' = "loop"
            /\ UNCHANGED << fatal, exitCode >>
    /\ UNCHANGED << flags, url, fetch, report, view, failures >>

\* type Aqi: the reduced summary of a station (lines 129-136)
Summary(n, station) == [station |-> n, Category |-> station.Category]

LogNothing(lines, n, station) == lines

\* getAqi lines 137-141: json.Marshal of the summary, log.Println
LogPrintln(lines, n, station) == Append(lines, Summary(n, station))

\* getAqi lines 128-142: one iteration up to the call of dataUi.  json.Marshal
\* cannot fail here: every float of the summary was decoded from JSON.
LogSummary ==
    /\ pc = "loop"
    /\ i <= Len(aqi.Stations)
    /\ logLines' = LogPrintln(logLines, i, aqi.Stations[i])
    /\ pc' = "dataUi"
    /\ UNCHANGED << flags, url, fetch, i, opened, dismissed, view, failures,
                    fatal, exitCode >>

\* dataUi lines 150-154: ui.Init succeeded, ui.Close is deferred
UiInitOk ==
    /\ pc = "dataUi"
    /\ uiContexts' = uiContexts + 1
    /\ opened' = Append(opened, i)
    /\ renders' = 0
    /\ barColor' = "default"
    /\ e' = ""
    /\ pc' = "render"
    /\ UNCHANGED << flags, url, fetch, i, logLines, dismissed, failures, fatal,
                    exitCode >>

\* dataUi lines 150-152: ui.Init failed
UiInitErr ==
    /\ pc = "dataUi"
    /\ Fatal("uiinit")
    /\ UNCHANGED << flags, url, fetch, report, view, failures >>

BarColorOfTwoTone(category) ==
    IF category = "Good" THEN "green"
    ELSE IF category \in {"Moderate", "Unhealthy for Sensitive Groups"} THEN "yellow"
    ELSE IF category \in {"Unhealthy", "Very Unhealthy", "Hazardous"} THEN "red"
    ELSE "default"

\* dataUi lines 162-175: the switch on aqiInfo.Category
BarColorOf(category) ==
    IF category = "Good" THEN "green"
    ELSE IF category = "Moderate" THEN "yellow"
    ELSE IF category = "Unhealthy for Sensitive Groups" THEN "red"
    ELSE IF category = "Unhealthy" THEN "red"
    ELSE IF category = "Very Unhealthy" THEN "red"
    ELSE IF category = "Hazardous" THEN "red"
    ELSE "default"

\* dataUi lines 156-199: widgets built, one ui.Render, ui.PollEvents
Render ==
    /\ pc = "render"
    /\ barColor' = BarColorOf(aqi.Stations[i].Category)
    /\ renders' = renders + 1
    /\ pc' = "poll"
    /\ UNCHANGED << flags, url, fetch, report, uiContexts, e, failures, fatal,
                    exitCode >>

IsQuitOnlyQ(id) == id = "q"

\* dataUi lines 202-204: case "q", "<C-c>"
IsQuit(id) == id \in {"q", "<C-c>"}

UiCloseSkipped == uiContexts' = uiContexts

\* dataUi line 154: the deferred ui.Close, run when dataUi returns
UiClose == uiContexts' = uiContexts - 1

NextIndexSkip(n) == n + 2

\* getAqi line 128: the range loop moves to the next station
NextIndex(n) == n + 1

\* dataUi lines 200-206: one event taken from uiEvents
Event ==
    /\ pc = "poll"
    /\ \E id \in EventIDs :
          /\ e' = id
          /\ IF IsQuit(id)
             THEN /\ UiClose
                  /\ dismissed' = Append(dismissed, [station |-> i, key |-> id])
                  /\ i' = NextIndex(i)
                  /\ pc' = "loop"
             ELSE UNCHANGED << uiContexts, dismissed, i, pc >>
    /\ UNCHANGED << flags, url, fetch, logLines, opened, renders, barColor,
                    failures, fatal, exitCode >>

\* getAqi lines 109-114, 144: the loop is over, getAqi returns and the
\* deferred Body.Close succeeds
ReturnCloseOk ==
    /\ pc = "loop"
    /\ i > Len(aqi.Stations)
    /\ bodyState' = "closed"
    /\ pc' = "exited"
    /\ exitCode' = 0
    /\ UNCHANGED << flags, url, requests, resBody, body, decoded, aqi, report,
                    view, failures, fatal >>

\* getAqi lines 109-114, 144: the deferred Body.Close returns an error
ReturnCloseErr ==
    /\ pc = "loop"
    /\ i > Len(aqi.Stations)
    /\ Fatal("close")
    /\ UNCHANGED << flags, url, fetch, report, view, failures >>

Next ==
    \/ BuildUrl
    \/ NewRequestOk
    \/ NewRequestErr
    \/ DoOk
    \/ DoErrNil
    \/ DoErrRedirect
    \/ ReadOk
    \/ ReadErr
    \/ Unmarshal
    \/ CheckStations
    \/ LogSummary
    \/ UiInitOk
    \/ UiInitErr
    \/ Render
    \/ Event
    \/ ReturnCloseOk
    \/ ReturnCloseErr

Spec == Init /\ [][Next]_vars

\* ------------------------------------------------------------ properties
\* The three valid location shapes, each with every other flag empty.
CityAlone ==
    city # "" /\ postal = "" /\ country = "" /\ latitude = "" /\ longitude = ""
PostalCountryAlone ==
    postal # "" /\ country # "" /\ city = "" /\ latitude = "" /\ longitude = ""
LatLngAlone ==
    latitude # "" /\ longitude # "" /\ city = "" /\ postal = "" /\ country = ""
ValidShape == CityAlone \/ PostalCountryAlone \/ LatLngAlone

Viewing == pc \in {"render", "poll"}

\* C1: every flag combination that is not exactly one of the three valid
\* shapes ends in the fatal usage error, with no URL built and no HTTP
\* request sent.
C1_InvalidShapeRejected ==
    (~ValidShape /\ pc # "flags") =>
        /\ pc = "exited"
        /\ fatal = "usage"
        /\ exitCode = 1
        /\ url = ""
        /\ requests = 0

\* C2: for every valid shape the URL is the fixed base followed by exactly
\* that shape's parameters, concatenated unchanged.
C2_UrlOfValidShape ==
    (ValidShape /\ pc # "flags") =>
        /\ CityAlone => url = "http://localhost:3000/api?city=" \o city
        /\ PostalCountryAlone =>
              url = "http://localhost:3000/api?postal=" \o postal
                       \o "&country=" \o country
        /\ LatLngAlone =>
              url = "http://localhost:3000/api?lat=" \o latitude
                       \o "&lng=" \o longitude

C2_Witness ==
    /\ PostalCountryAlone
    /\ pc = "request"
    /\ url = "http://localhost:3000/api?postal=54000&country=PK"

\* C3: every failure of the fetch-and-decode step (request construction,
\* transport, response read, JSON decode) is immediately fatal: the error is
\* logged, the exit code is non-zero, and the run goes no further.
C3_FailureIsFatal ==
    failures # {} =>
        /\ pc = "exited"
        /\ fatal # "none"
        /\ exitCode = 1

\* C4: a decoded envelope with zero stations, whatever its message, ends in
\* the fatal empty-result error; no summary is logged and no terminal context
\* is initialised.
C4_EmptyIsFatal ==
    (decoded /\ Len(aqi.Stations) = 0) =>
        /\ logLines = << >>
        /\ opened = << >>
        /\ uiContexts = 0
        /\ \/ pc = "check"
           \/ pc = "exited" /\ fatal = "empty" /\ exitCode = 1

C4_Witness ==
    /\ decoded
    /\ Len(aqi.Stations) = 0
    /\ aqi.Message = "success"
    /\ pc = "exited"
    /\ fatal = "empty"

\* C5: stations are viewed one at a time in response order; the view of
\* station n+1 opens only after the view of station n was dismissed by "q" or
\* "<C-c>"; none is skipped or repeated; exit 0 only after the last dismissal.
C5_SequentialViews ==
    /\ Len(opened) <= Len(aqi.Stations)
    /\ \A n \in 1..Len(opened) : opened[n] = n
    /\ \A n \in 1..Len(dismissed) :
          /\ dismissed[n].station = n
          /\ dismissed[n].key \in {"q", "<C-c>"}
    /\ Len(dismissed) <= Len(opened)
    /\ Len(opened) <= Len(dismissed) + 1
    /\ Viewing <=> Len(opened) = Len(dismissed) + 1
    /\ exitCode = 0 =>
          /\ Len(aqi.Stations) > 0
          /\ Len(dismissed) = Len(aqi.Stations)

C5_Witness ==
    /\ exitCode = 0
    /\ Len(dismissed) >= 2
    /\ Len(dismissed) = Len(aqi.Stations)

\* C6: each station gets exactly one summary line, written after the
\* previous view was dismissed and before its own view opens; the number of
\* lines is the number of dismissed views or one more.
C6_SummaryBeforeView ==
    /\ Len(logLines) <= Len(aqi.Stations)
    /\ \A n \in 1..Len(logLines) :
          logLines[n] = [station |-> n, Category |-> aqi.Stations[n].Category]
    /\ Len(logLines) \in {Len(dismissed), Len(dismissed) + 1}
    /\ Len(opened) <= Len(logLines)
    /\ Viewing => Len(logLines) = Len(opened)
    /\ pc = "dataUi" =>
          /\ Len(logLines) = Len(dismissed) + 1
          /\ Len(opened) = Len(dismissed)
    /\ exitCode = 0 => Len(logLines) = Len(aqi.Stations)

C6_Witness ==
    /\ pc = "poll"
    /\ Len(logLines) = 2
    /\ Len(dismissed) = 1

\* C7: once rendered, the view returns only on "q" or "<C-c>"; any other
\* event leaves it open with its single rendering unchanged, and the first
\* quit or interrupt event makes it return.
C7_OnlyQuitReturns ==
    [][ pc = "poll" =>
          /\ renders = 1
          /\ (e' \in {"q", "<C-c>"}) <=> (pc' # "poll")
          /\ pc' = "poll" =>
                /\ renders' = renders
                /\ barColor' = barColor
                /\ uiContexts' = uiContexts
                /\ dismissed' = dismissed
                /\ i' = i
          /\ pc' # "poll" =>
                /\ pc' = "loop"
                /\ dismissed' = Append(dismissed, [station |-> i, key |-> e'])
      ]_vars

C7_Witness ==
    /\ pc = "poll"
    /\ e = "<Enter>"
    /\ renders = 1

\* C8: in every run that obtained a response, the body is closed before the
\* process ends and before any station is viewed, whether the decode
\* succeeded, failed, or yielded no station.
C8_BodyReleased ==
    (bodyState # "none" /\ pc \in {"exited", "dataUi", "render", "poll"}) =>
        bodyState = "closed"

\* C9: the gauge bar colour depends on the category alone: Good is green,
\* Moderate yellow, the four unhealthy categories red, anything else keeps
\* the default colour.
C9_BarColor ==
    pc = "poll" =>
        LET c == aqi.Stations[i].Category IN
        /\ c = "Good" => barColor = "green"
        /\ c = "Moderate" => barColor = "yellow"
        /\ c \in {"Unhealthy for Sensitive Groups", "Unhealthy",
                  "Very Unhealthy", "Hazardous"} => barColor = "red"
        /\ c \notin {"Good", "Moderate", "Unhealthy for Sensitive Groups",
                     "Unhealthy", "Very Unhealthy", "Hazardous"}
              => barColor = "default"

C9_Witness ==
    /\ pc = "poll"
    /\ aqi.Stations[i].Category = "Unhealthy for Sensitive Groups"
    /\ barColor = "red"

\* C10: every terminal context dataUi initialises is closed when that call
\* returns, by either key; at most one is open at a time, none while a
\* summary is logged, none when the run completes normally.
C10_ContextTornDown ==
    /\ uiContexts \in {0, 1}
    /\ uiContexts = Len(opened) - Len(dismissed)
    /\ uiContexts = 1 <=> Viewing
    /\ pc \in {"loop", "dataUi"} => uiContexts = 0
    /\ exitCode = 0 => uiContexts = 0

C10_Witness ==
    /\ pc = "loop"
    /\ Len(dismissed) >= 1
    /\ dismissed[1].key = "<C-c>"
    /\ uiContexts = 0
====
